---------------------------- MODULE Spec2Model ----------------------------
(***************************************************************************)
(* MegatSukaToken (src/src/sukatoken.py): a rule-based Malay syllable      *)
(* tokenizer with prefix markers, particle splitting, and a vocabulary     *)
(* codec.  A Python str is modelled as a sequence of one-character         *)
(* strings; indices i, start are Python's 0-based indices.                 *)
(***************************************************************************)
EXTENDS Integers, Sequences, FiniteSets, TLC

(***************************************************************************)
(* Characters.  AsciiTable lists the printable ASCII characters in code    *)
(* point order, so that Ord gives Python's ord() and string comparison is  *)
(* the code-point comparison sorted() uses.                                *)
(***************************************************************************)
\* the grave accent (code point 96), which a TLA+ string literal cannot hold
Grave == "grave"

AsciiTable ==
  << " ", "!", "\"", "#", "$", "%", "&", "'", "(", ")", "*", "+", ",", "-", ".", "/",
     "0", "1", "2", "3", "4", "5", "6", "7", "8", "9", ":", ";", "<", "=", ">", "?",
     "@", "A", "B", "C", "D", "E", "F", "G", "H", "I", "J", "K", "L", "M", "N", "O",
     "P", "Q", "R", "S", "T", "U", "V", "W", "X", "Y", "Z", "[", "\\", "]", "^", "_",
     Grave, "a", "b", "c", "d", "e", "f", "g", "h", "i", "j", "k", "l", "m", "n", "o",
     "p", "q", "r", "s", "t", "u", "v", "w", "x", "y", "z", "{", "|", "}", "~" >>

\* Python's ord() on the printable ASCII range, which starts at code point 32
Ord(c) == 31 + (CHOOSE k \in 1..Len(AsciiTable) : AsciiTable[k] = c)

\* Python's chr()
Chr(n) == AsciiTable[n - 31]

\* str.lower() on one character
LowerChar(c) ==
  IF Ord(c) >= Ord("A") /\ Ord(c) <= Ord("Z")
  THEN Chr(Ord(c) + (Ord("a") - Ord("A")))
  ELSE c

\* str.lower()
Lower(s) == [k \in 1..Len(s) |-> LowerChar(s[k])]

\* the characters str.split() and str.strip() treat as whitespace
Whitespace == {" "}

\* string.punctuation
Punctuation ==
  <<"!", "\"", "#", "$", "%", "&", "'", "(", ")", "*", "+", ",", "-", ".", "/", ":",
    ";", "<", "=", ">", "?", "@", "[", "\\", "]", "^", "_", Grave, "{", "|", "}", "~">>

Consonants ==
  {"b", "c", "d", "f", "g", "h", "j", "k", "l", "m", "n", "p", "q", "r", "s", "t",
   "v", "w", "x", "y", "z"}

Vowels == {"a", "e", "i", "o", "u"}

\* the range of a sequence
Range(s) == {s[k] : k \in 1..Len(s)}

\* Python's s[a:b] for 0 <= a <= b <= len(s)
Slice(s, a, b) == SubSeq(s, a + 1, b)

\* Python's s[i]
At(s, i) == s[i + 1]

\* str.startswith
StartsWith(s, p) == Len(p) <= Len(s) /\ SubSeq(s, 1, Len(p)) = p

\* str.endswith
EndsWith(s, p) == Len(p) <= Len(s) /\ SubSeq(s, Len(s) - Len(p) + 1, Len(s)) = p

RECURSIVE Flatten(_)
\* concatenation of a sequence of sequences, in order (computed by halves)
Flatten(ss) ==
  IF Len(ss) = 0 THEN <<>>
  ELSE IF Len(ss) = 1 THEN ss[1]
  ELSE LET h == Len(ss) \div 2
       IN  Flatten(SubSeq(ss, 1, h)) \o Flatten(SubSeq(ss, h + 1, Len(ss)))

(***************************************************************************)
(* The tokenizer object: self.prefixes and self.particles.                 *)
(***************************************************************************)
\* _build_prefix_library(): the shipped list, duplicates included
BuildPrefixLibrary ==
  << <<"b", "e", "r">>, <<"t", "e", "r">>, <<"s", "e">>, <<"b", "e">>, <<"k", "e">>,
     <<"p", "e">>, <<"m", "e", "m">>, <<"m", "e", "n">>, <<"m", "e", "n", "g">>,
     <<"m", "e", "n", "y">>,
     <<"p", "e", "m">>, <<"p", "e", "n">>, <<"p", "e", "n", "g">>, <<"p", "e", "n", "y">>,
     <<"p", "e", "n", "g", "e">>, <<"p", "e", "l">>, <<"p", "e", "r">>,
     <<"j", "u", "r", "u">>,
     <<"d", "w", "i">>, <<"e", "k", "a">>, <<"p", "a", "s", "c", "a">>, <<"p", "r", "a">>,
     <<"s", "w", "a">>,
     <<"k", "e">>, <<"p", "e">>, <<"p", "e", "m">>, <<"p", "e", "n">>,
     <<"p", "e", "n", "g">>, <<"p", "e", "n", "g", "e">>, <<"p", "e", "l">>,
     <<"p", "e", "r">>, <<"j", "u", "r", "u">>,
     <<"d", "w", "i">>, <<"e", "k", "a">>, <<"p", "a", "s", "c", "a">>, <<"p", "r", "a">>,
     <<"s", "w", "a">> >>

\* _build_particle_library()
BuildParticleLibrary ==
  << <<"l", "a", "h">>, <<"k", "a", "n">>, <<"j", "e">>, <<"p", "u", "n">>, <<"t", "u">>,
     <<"k", "e", "h">>, <<"d", "i", "k">>, <<"t", "a", "u">>, <<"n", "a", "k">> >>

\* the longest length among the strings of a list (0 for the empty list)
MaxLenOf(list) ==
  IF list = <<>> THEN 0
  ELSE CHOOSE n \in {Len(list[k]) : k \in 1..Len(list)} :
         \A k \in 1..Len(list) : Len(list[k]) <= n

RECURSIVE SortByLenFrom(_, _)
\* the entries of length L, then those of length L-1, ..., each group in list order
SortByLenFrom(list, L) ==
  IF L < 0 THEN <<>>
  ELSE SelectSeq(list, LAMBDA x : Len(x) = L) \o SortByLenFrom(list, L - 1)

\* SortedByLenDesc without the sort: the list in its enumeration order
SortedByLenDescUnsorted(list) == list

\* sorted(list, key=len, reverse=True): longest first, stable among equal lengths
SortedByLenDesc(list) == SortByLenFrom(list, MaxLenOf(list))

\* FirstIndex without the break at line 96: the last index that satisfies the
\* test
FirstIndexNoBreak(hits) ==
  IF hits = {} THEN 0 ELSE CHOOSE k \in hits : \A j \in hits : j <= k

\* the for loop of _split_prefixes_contextual / _split_particles, which stops at
\* the first entry that satisfies its test: hits are the indices of the entries
\* that satisfy it, the result the first of them, 0 when none does
FirstIndex(hits) ==
  IF hits = {} THEN 0 ELSE CHOOSE k \in hits : \A j \in hits : k <= j

\* sorted(self.prefixes, key=len, reverse=True) at line 91
SortedPrefixes == SortedByLenDesc(BuildPrefixLibrary)

\* sorted(self.particles, key=len, reverse=True) at line 115
SortedParticles == SortedByLenDesc(BuildParticleLibrary)

\* FindPrefix without the break at line 96: the last match of the pass wins
FindPrefixLast(sorted, word) ==
  LET k == FirstIndexNoBreak({j \in 1..Len(sorted) : StartsWith(word, sorted[j])})
  IN  IF k = 0 THEN <<>> ELSE <<sorted[k]>>

\* one pass of the for loop at lines 91-96 over the sorted list: the prefix found
\* at the front of word, as a one-element sequence, or <<>> when found_any stays
\* False
FindPrefix(sorted, word) ==
  LET k == FirstIndex({j \in 1..Len(sorted) : StartsWith(word, sorted[j])})
  IN  IF k = 0 THEN <<>> ELSE <<sorted[k]>>

\* f"[PREFIX={pf}]"
PrefixMarker(pf) == <<"[", "P", "R", "E", "F", "I", "X", "=">> \o pf \o <<"]">>

\* PrefixTokens with the original word appended before the markers
PrefixTokensWordFirst(found, original) ==
  <<original>> \o [k \in 1..Len(found) |-> <<"[", "P", "R", "E", "F", "I", "X", "=">>
                                             \o found[k] \o <<"]">>]

\* lines 100-106: the markers of prefixes_found, then the original word
PrefixTokens(found, original) ==
  [k \in 1..Len(found) |-> PrefixMarker(found[k])] \o <<original>>

RECURSIVE PrefixesFound(_, _)
\* the while loop at lines 89-98 over the sorted list: the prefixes detected in
\* sequence
PrefixesFound(sorted, word) ==
  LET f == FindPrefix(sorted, word)
  IN  IF f = <<>> THEN <<>>
      ELSE f \o PrefixesFound(sorted, Slice(word, Len(f[1]), Len(word)))

\* _split_prefixes_contextual(word), given the sorted list of line 91
SplitPrefixesWith(sorted, word) == PrefixTokens(PrefixesFound(sorted, word), word)

\* _split_prefixes_contextual(word)
SplitPrefixesContextual(word) == SplitPrefixesWith(SortedPrefixes, word)

\* SplitParticles without the guard token != p of line 117
SplitParticlesNoGuard(token) ==
  LET k == FirstIndex({j \in 1..Len(SortedParticles) : EndsWith(token, SortedParticles[j])})
  IN  IF k = 0 THEN <<token>>
      ELSE <<Slice(token, 0, Len(token) - Len(SortedParticles[k])), SortedParticles[k]>>

\* _split_particles(token)
SplitParticles(token) ==
  LET k == FirstIndex({j \in 1..Len(SortedParticles) :
                        EndsWith(token, SortedParticles[j]) /\ token # SortedParticles[j]})
  IN  IF k = 0 THEN <<token>>
      ELSE <<Slice(token, 0, Len(token) - Len(SortedParticles[k])), SortedParticles[k]>>

(***************************************************************************)
(* _tokenize_suku_kata: the guards of its two loops, and the function.     *)
(***************************************************************************)
\* lines 132-134 and 140-142: a consonant at i followed by a vowel at i+1
StartsCV(text, i) ==
  /\ i + 1 < Len(text)
  /\ At(text, i) \in Consonants
  /\ At(text, i + 1) \in Vowels

\* InnerBreak without the vowel test of lines 138-139
InnerBreakNoVowel(text, i) == StartsCV(text, i)

\* lines 138-143: the inner loop breaks at i (i < len(text))
InnerBreak(text, i) == At(text, i) \in Vowels \/ StartsCV(text, i)

RECURSIVE SyllableEnd(_, _)
\* the inner while loop, lines 137-145: the position where it stops
SyllableEnd(text, i) ==
  IF i < Len(text) /\ ~InnerBreak(text, i) THEN SyllableEnd(text, i + 1) ELSE i

RECURSIVE SukuKataFrom(_, _, _)
\* the outer while loop, lines 131-149, from position i with tokens so far
SukuKataFrom(text, i, tokens) ==
  IF ~(i < Len(text)) THEN tokens
  ELSE IF StartsCV(text, i)
       THEN LET e == SyllableEnd(text, i + 2)
            IN  SukuKataFrom(text, e, Append(tokens, Slice(text, i, e)))
       ELSE SukuKataFrom(text, i + 1, Append(tokens, <<At(text, i)>>))

\* _tokenize_suku_kata(text)
TokenizeSukuKata(text) == SukuKataFrom(text, 0, <<>>)

(***************************************************************************)
(* tokenize                                                                *)
(***************************************************************************)
\* lines 162-163: text.replace(p, f" {p} ") for each p of string.punctuation in
\* turn.  A replacement inserts only spaces and p itself, and each p has its one
\* turn, so every punctuation character of the text ends up between two spaces.
SplitPunctuation(text) ==
  Flatten([k \in 1..Len(text) |->
             IF text[k] \in Range(Punctuation)
             THEN <<" ", text[k], " ">>
             ELSE <<text[k]>>])

\* text.split(): the maximal runs of non-whitespace characters, in order; the
\* k-th word starts at the run start that has k-1 run starts before it
SplitWords(text) ==
  LET starts == {a \in 1..Len(text) :
                   text[a] \notin Whitespace /\ (a = 1 \/ text[a - 1] \in Whitespace)}
      endOf(a) == CHOOSE b \in a..Len(text) :
                    /\ \A m \in a..b : text[m] \notin Whitespace
                    /\ (b = Len(text) \/ text[b + 1] \in Whitespace)
      startOf(k) == CHOOSE a \in starts : Cardinality({b \in starts : b < a}) = k - 1
  IN  [k \in 1..Cardinality(starts) |-> SubSeq(text, startOf(k), endOf(startOf(k)))]

RECURSIVE Strip(_)
\* t.strip()
Strip(t) ==
  IF t = <<>> THEN t
  ELSE IF Head(t) \in Whitespace THEN Strip(Tail(t))
  ELSE IF t[Len(t)] \in Whitespace THEN Strip(SubSeq(t, 1, Len(t) - 1))
  ELSE t

\* lines 172-180: the tokens one chunk of prefix_and_word contributes
ChunkTokens(chunk) ==
  IF StartsWith(chunk, <<"[", "P", "R", "E", "F", "I", "X", "=">>)
  THEN <<chunk>>
  ELSE LET suku_kata_tokens == TokenizeSukuKata(chunk)
       IN  Flatten([k \in 1..Len(suku_kata_tokens) |->
                      SplitParticles(suku_kata_tokens[k])])

\* lines 169-180: the body of the loop over words
WordTokens(word) ==
  LET w_lower == Lower(word)
      prefix_and_word == SplitPrefixesContextual(w_lower)
  IN  Flatten([k \in 1..Len(prefix_and_word) |-> ChunkTokens(prefix_and_word[k])])

\* line 182: [t for t in tokens if t.strip()]
DropBlank(tokens) == SelectSeq(tokens, LAMBDA t : Strip(t) # <<>>)

\* tokenize(text) of a tokenizer constructed with split_punctuation = sp
Tokenize(sp, text) ==
  LET spaced == IF sp THEN SplitPunctuation(text) ELSE text
      words == SplitWords(spaced)
  IN  DropBlank(Flatten([k \in 1..Len(words) |-> WordTokens(words[k])]))

(***************************************************************************)
(* Vocabulary builder and codec.  A Python dict is modelled as the         *)
(* sequence of its items [key, val] in insertion order.                    *)
(***************************************************************************)
\* the literal "<UNK>"
UNK == <<"<", "U", "N", "K", ">">>

\* key in d
DictHas(d, key) == \E k \in 1..Len(d) : d[k].key = key

\* d.get(key, default)
DictGet(d, key, default) ==
  IF DictHas(d, key)
  THEN d[CHOOSE k \in 1..Len(d) : d[k].key = key].val
  ELSE default

\* d[key] = val: an existing key keeps its place and takes the new value
DictSet(d, key, val) ==
  IF DictHas(d, key)
  THEN [k \in 1..Len(d) |-> IF d[k].key = key THEN [key |-> key, val |-> val] ELSE d[k]]
  ELSE Append(d, [key |-> key, val |-> val])

RECURSIVE LexLess(_, _)
\* a < b for Python strings: code point order, a proper prefix first
LexLess(a, b) ==
  IF b = <<>> THEN FALSE
  ELSE IF a = <<>> THEN TRUE
  ELSE IF Head(a) # Head(b) THEN Ord(Head(a)) < Ord(Head(b))
  ELSE LexLess(Tail(a), Tail(b))

\* sorted(S) for a set of strings: the k-th entry is the string with k-1
\* strings of S before it
SortedStrings(S) ==
  [k \in 1..Cardinality(S) |->
     CHOOSE x \in S : Cardinality({y \in S : LexLess(y, x)}) = k - 1]

RECURSIVE TokenSet(_, _)
\* lines 188-190: the union of tokenize(text) over the dataset
TokenSet(sp, dataset) ==
  IF dataset = <<>> THEN {}
  ELSE Range(Tokenize(sp, Head(dataset))) \cup TokenSet(sp, Tail(dataset))

\* BuildVocab with enumerate(..., 1): the ids of the tokens start at 1
BuildVocabFromOne(sp, dataset) ==
  LET sorted == SortedStrings(TokenSet(sp, dataset))
      enumerated == [k \in 1..Len(sorted) |-> [key |-> sorted[k], val |-> k]]
  IN  DictSet(enumerated, UNK, Len(enumerated))

\* build_vocab(dataset)
BuildVocab(sp, dataset) ==
  LET sorted == SortedStrings(TokenSet(sp, dataset))
      enumerated == [k \in 1..Len(sorted) |-> [key |-> sorted[k], val |-> k - 1]]
  IN  DictSet(enumerated, UNK, Len(enumerated))

\* EncodeText with len(vocab) instead of vocab["<UNK>"] for an unknown token
EncodeTextUnkLen(sp, text, vocab) ==
  LET tokens == Tokenize(sp, text)
  IN  [k \in 1..Len(tokens) |-> DictGet(vocab, tokens[k], Len(vocab))]

\* encode_text(text, vocab), where vocab has the key "<UNK>"
EncodeText(sp, text, vocab) ==
  LET tokens == Tokenize(sp, text)
      unk == DictGet(vocab, UNK, -1)
  IN  [k \in 1..Len(tokens) |-> DictGet(vocab, tokens[k], unk)]

\* vocab["<UNK>"] at line 201 raises KeyError: it is evaluated once per token
EncodeRaises(sp, text, vocab) == Tokenize(sp, text) # <<>> /\ ~DictHas(vocab, UNK)

\* line 207: {idx: token for token, idx in vocab.items()}.  An idx enters the
\* dict at its first item and ends with the token of its last item.
ReverseVocab(vocab) ==
  LET positions == [k \in 1..Len(vocab) |-> k]
      firsts == SelectSeq(positions,
                          LAMBDA k : \A j \in 1..(k - 1) : vocab[j].val # vocab[k].val)
      last(idx) == CHOOSE k \in 1..Len(vocab) :
                     /\ vocab[k].val = idx
                     /\ \A j \in (k + 1)..Len(vocab) : vocab[j].val # idx
  IN  [n \in 1..Len(firsts) |->
         [key |-> vocab[firsts[n]].val, val |-> vocab[last(vocab[firsts[n]].val)].key]]

\* sep.join(parts): the parts with sep between each two neighbours
Join(parts, sep) ==
  Flatten([k \in 1..(2 * Len(parts) - 1) |->
             IF k % 2 = 1 THEN parts[(k + 1) \div 2] ELSE sep])

\* DecodeText with "".join instead of " ".join
DecodeTextNoSpace(token_ids, vocab) ==
  LET reverse_vocab == ReverseVocab(vocab)
  IN  Join([k \in 1..Len(token_ids) |-> DictGet(reverse_vocab, token_ids[k], UNK)],
           <<>>)

\* decode_text(token_ids, vocab)
DecodeText(token_ids, vocab) ==
  LET reverse_vocab == ReverseVocab(vocab)
  IN  Join([k \in 1..Len(token_ids) |-> DictGet(reverse_vocab, token_ids[k], UNK)],
           <<" ">>)

(***************************************************************************)
(* Inputs.                                                                 *)
(***************************************************************************)
MaxSegLen == 4

MaxChain == 2

MaxAtoms == 2

MaxTexts == 2

MaxIds == 2

\* the sequences over S of length at most n
SeqsUpTo(S, n) == UNION {[1..m -> S] : m \in 0..n}

\* characters for direct calls of the segmenter: consonants, vowels, a digit
SegAlphabet == {"l", "h", "a", "u", "1"}

SegTexts == SeqsUpTo(SegAlphabet, MaxSegLen)

\* what follows a chain of prefixes in a word
Tails == {<<>>, <<"e">>, <<"b", "a", "i", "k", "i">>}

\* the prefixes chained in words: the shipped prefixes that are a prefix of, or
\* continue into, another shipped prefix, and "mem", "per" of "memperbaiki"
ChainPrefixes ==
  { <<"b", "e">>, <<"b", "e", "r">>, <<"k", "e">>, <<"s", "e">>, <<"p", "e">>,
    <<"p", "e", "m">>, <<"p", "e", "n", "g">>, <<"p", "e", "n", "g", "e">>,
    <<"p", "e", "r">>, <<"m", "e", "m">>, <<"m", "e", "n", "g">> }

\* words for direct calls of the prefix stripper: every shipped prefix, and the
\* chains of ChainPrefixes, followed by a tail
PrefixWords ==
  {Flatten(c) \o t : c \in SeqsUpTo(ChainPrefixes, MaxChain), t \in Tails}
    \cup {p \o t : p \in Range(BuildPrefixLibrary), t \in Tails}

\* the pieces texts are made of: a word with two prefixes, a word ending in a
\* particle, a word with a digit and a punctuation character, "<UNK>", a blank
TextAtoms ==
  { <<"m", "e", "m", "p", "e", "r", "b", "a", "i", "k", "i">>,
    <<"b", "u", "a", "t", "l", "a", "h">>,
    <<"b", "a", "1", ",">>,
    UNK,
    <<" ">> }

Texts == {Flatten(c) : c \in SeqsUpTo(TextAtoms, MaxAtoms)}

\* the texts corpora are made of: one of the dataset of src/src/test.py, the
\* example of sukatoken.py line 220, and a text with "<UNK>", a digit and
\* punctuation
CorpusTexts ==
  { <<"k", "u", "c", "i", "n", "g", " ", "b", "e", "r", "l", "a", "r", "i", " ",
      "d", "i", " ", "t", "a", "m", "a", "n">>,
    <<"M", "e", "m", "p", "e", "r", "b", "a", "i", "k", "i", " ",
      "k", "e", "r", "o", "s", "a", "k", "a", "n", "l", "a", "h", ",", " ",
      "k", "a", "n", "?">>,
    <<"<", "U", "N", "K", ">", " ", "b", "u", "a", "t", "l", "a", "h", ",", " ",
      "b", "a", "1", "!">> }

Datasets == SeqsUpTo(CorpusTexts, MaxTexts)

\* ids handed to decode_text for a vocabulary: around both ends of its id range
IdChoices(vocab) == {-1, 0, Len(vocab) - 2, Len(vocab) - 1, Len(vocab)}

(***************************************************************************)
(* State.  pc is the position of the running call; text, i, start, tokens, *)
(* word, original_word, prefixes_found are the locals of the running       *)
(* method; the others are the tokenizer's option and the values of the     *)
(* session of src/src/test.py.                                             *)
(***************************************************************************)
VARIABLES pc, text, i, start, tokens, word, original_word, prefixes_found,
          split_punctuation, dataset, vocab, encoded, decoded

vars == <<pc, text, i, start, tokens, word, original_word, prefixes_found,
          split_punctuation, dataset, vocab, encoded, decoded>>

prefixvars == <<word, original_word, prefixes_found>>

sessionvars == <<split_punctuation, dataset, vocab, encoded, decoded>>

\* a direct call _tokenize_suku_kata(text), at line 129-130
InitSegment ==
  /\ pc = "scan"
  /\ text \in SegTexts
  /\ i = 0 /\ start = 0 /\ tokens = <<>>
  /\ word = <<>> /\ original_word = <<>> /\ prefixes_found = <<>>
  /\ split_punctuation = TRUE
  /\ dataset = <<>> /\ vocab = <<>> /\ encoded = <<>> /\ decoded = <<>>

\* a direct call _split_prefixes_contextual(word), at lines 86-87
InitPrefix ==
  /\ pc = "prefix_loop"
  /\ word \in PrefixWords
  /\ original_word = word /\ prefixes_found = <<>>
  /\ text = <<>> /\ i = 0 /\ start = 0 /\ tokens = <<>>
  /\ split_punctuation = TRUE
  /\ dataset = <<>> /\ vocab = <<>> /\ encoded = <<>> /\ decoded = <<>>

\* the session of test.py: a tokenizer is constructed and a dataset chosen
InitSession ==
  /\ pc = "start"
  /\ split_punctuation \in BOOLEAN
  /\ dataset \in Datasets
  /\ vocab = <<>> /\ encoded = <<>> /\ decoded = <<>>
  /\ text = <<>> /\ i = 0 /\ start = 0 /\ tokens = <<>>
  /\ word = <<>> /\ original_word = <<>> /\ prefixes_found = <<>>

Init == InitSegment \/ InitPrefix \/ InitSession

(***************************************************************************)
(* _tokenize_suku_kata, one action per loop iteration.                     *)
(***************************************************************************)
\* lines 131-136: the outer loop finds a CV pair at i
SegEnter ==
  /\ pc = "scan"
  /\ i < Len(text)
  /\ StartsCV(text, i)
  /\ start' = i
  /\ i' = i + 2
  /\ pc' = "in_syllable"
  /\ UNCHANGED <<text, tokens, prefixvars, sessionvars>>

\* lines 137-145: the inner loop consumes the character at i
SegConsume ==
  /\ pc = "in_syllable"
  /\ i < Len(text)
  /\ ~InnerBreak(text, i)
  /\ i' = i + 1
  /\ UNCHANGED <<pc, text, start, tokens, prefixvars, sessionvars>>

\* lines 137-146: the inner loop ends and the syllable is appended
SegEmit ==
  /\ pc = "in_syllable"
  /\ ~(i < Len(text) /\ ~InnerBreak(text, i))
  /\ tokens' = Append(tokens, Slice(text, start, i))
  /\ pc' = "scan"
  /\ UNCHANGED <<text, i, start, prefixvars, sessionvars>>

\* SegSingle, but a character that is no letter is skipped instead of emitted
SegSingleSkipsNonLetter ==
  /\ pc = "scan"
  /\ i < Len(text)
  /\ ~StartsCV(text, i)
  /\ tokens' = IF At(text, i) \in Consonants \cup Vowels
               THEN Append(tokens, <<At(text, i)>>)
               ELSE tokens
  /\ i' = i + 1
  /\ UNCHANGED <<pc, text, start, prefixvars, sessionvars>>

\* SegSingle without the increment of i at line 149
SegSingleNoAdvance ==
  /\ pc = "scan"
  /\ i < Len(text)
  /\ ~StartsCV(text, i)
  /\ tokens' = Append(tokens, <<At(text, i)>>)
  /\ UNCHANGED <<pc, i, text, start, prefixvars, sessionvars>>

\* lines 147-149: no CV pair at i, the character is a token of its own
SegSingle ==
  /\ pc = "scan"
  /\ i < Len(text)
  /\ ~StartsCV(text, i)
  /\ tokens' = Append(tokens, <<At(text, i)>>)
  /\ i' = i + 1
  /\ UNCHANGED <<pc, text, start, prefixvars, sessionvars>>

\* lines 131 and 150: the outer loop ends, tokens is returned
SegReturn ==
  /\ pc = "scan"
  /\ ~(i < Len(text))
  /\ pc' = "segment_returned"
  /\ UNCHANGED <<text, i, start, tokens, prefixvars, sessionvars>>

(***************************************************************************)
(* _split_prefixes_contextual, one action per iteration of the while loop. *)
(***************************************************************************)
\* lines 89-96: a prefix is found, recorded and removed from word
PrefixStrip ==
  /\ pc = "prefix_loop"
  /\ FindPrefix(SortedPrefixes, word) # <<>>
  /\ LET prefix == FindPrefix(SortedPrefixes, word)[1]
     IN  /\ prefixes_found' = Append(prefixes_found, prefix)
         /\ word' = Slice(word, Len(prefix), Len(word))
  /\ UNCHANGED <<pc, original_word, text, i, start, tokens, sessionvars>>

\* lines 97-106: no prefix is found, the markers and the word are returned
PrefixReturn ==
  /\ pc = "prefix_loop"
  /\ FindPrefix(SortedPrefixes, word) = <<>>
  /\ tokens' = PrefixTokens(prefixes_found, original_word)
  /\ pc' = "prefix_returned"
  /\ UNCHANGED <<prefixvars, text, i, start, sessionvars>>

(***************************************************************************)
(* The session of test.py: build_vocab, tokenize, encode_text, decode_text.*)
(***************************************************************************)
\* vocab = tokenizer.build_vocab(dataset)
DoBuildVocab ==
  /\ pc = "start"
  /\ vocab' = BuildVocab(split_punctuation, dataset)
  /\ pc' = "vocab_built"
  /\ UNCHANGED <<text, i, start, tokens, prefixvars, split_punctuation, dataset,
                 encoded, decoded>>

\* tokens = tokenizer.tokenize(text)
DoTokenize ==
  /\ pc = "vocab_built"
  /\ \E t \in Texts :
       /\ text' = t
       /\ tokens' = Tokenize(split_punctuation, t)
  /\ pc' = "tokenized"
  /\ UNCHANGED <<i, start, prefixvars, sessionvars>>

\* encoded = tokenizer.encode_text(text, vocab)
DoEncode ==
  /\ pc = "tokenized"
  /\ IF EncodeRaises(split_punctuation, text, vocab)
     THEN pc' = "KeyError" /\ UNCHANGED encoded
     ELSE /\ encoded' = EncodeText(split_punctuation, text, vocab)
          /\ pc' = "encoded"
  /\ UNCHANGED <<text, i, start, tokens, prefixvars, split_punctuation, dataset,
                 vocab, decoded>>

\* decoded = tokenizer.decode_text(encoded, vocab)
DoDecode ==
  /\ pc = "encoded"
  /\ decoded' = DecodeText(encoded, vocab)
  /\ pc' = "decoded"
  /\ UNCHANGED <<text, i, start, tokens, prefixvars, split_punctuation, dataset,
                 vocab, encoded>>

\* tokenizer.decode_text(token_ids, vocab) on ids that no encode_text produced
DoDecodeIds ==
  /\ pc = "vocab_built"
  /\ \E ids \in SeqsUpTo(IdChoices(vocab), MaxIds) :
       /\ encoded' = ids
       /\ decoded' = DecodeText(ids, vocab)
  /\ pc' = "ids_decoded"
  /\ UNCHANGED <<text, i, start, tokens, prefixvars, split_punctuation, dataset,
                 vocab>>

Next ==
  \/ SegEnter \/ SegConsume \/ SegEmit \/ SegSingle \/ SegReturn
  \/ PrefixStrip \/ PrefixReturn
  \/ DoBuildVocab \/ DoTokenize \/ DoEncode \/ DoDecode \/ DoDecodeIds

Spec == Init /\ [][Next]_vars

\* the direct calls of the two looping methods alone
LoopsInit == InitSegment \/ InitPrefix

LoopsNext ==
  \/ SegEnter \/ SegConsume \/ SegEmit \/ SegSingle \/ SegReturn
  \/ PrefixStrip \/ PrefixReturn

\* the loops are sequential code: an iteration that can run does run
LoopsSpec == LoopsInit /\ [][LoopsNext]_vars /\ WF_vars(LoopsNext)

TypeOK ==
  /\ pc \in {"scan", "in_syllable", "segment_returned", "prefix_loop",
             "prefix_returned", "start", "vocab_built", "tokenized", "encoded",
             "decoded", "ids_decoded", "KeyError"}
  /\ i \in 0..Len(text)
  /\ start \in 0..Len(text)

(***************************************************************************)
(* Properties.                                                             *)
(***************************************************************************)
\* what "<UNK>" holds in a vocabulary built by build_vocab: its last id
UnkId(v) == Len(v) - 1

\* the text "buatlah"
Buatlah == <<"b", "u", "a", "t", "l", "a", "h">>

\* the text "memperbaiki"
Memperbaiki == <<"m", "e", "m", "p", "e", "r", "b", "a", "i", "k", "i">>

\* a token is a prefix marker
IsMarker(t) == StartsWith(t, <<"[", "P", "R", "E", "F", "I", "X", "=">>)

\* C1: Losslessness of segmentation.  When _tokenize_suku_kata returns, the
\* concatenation of its tokens, in order, is its input text, and no token is
\* empty; during the scan the tokens emitted so far concatenate to text[0:i].
C1_Lossless ==
  /\ pc = "scan" => Flatten(tokens) = Slice(text, 0, i)
  /\ pc = "in_syllable" => Flatten(tokens) = Slice(text, 0, start)
  /\ pc = "segment_returned" =>
       /\ Flatten(tokens) = text
       /\ \A k \in 1..Len(tokens) : tokens[k] # <<>>

\* a returned segmentation of a text that mixes a consonant, a vowel and a
\* digit, with a syllable and single-character tokens among its tokens
C1_Witness ==
  /\ pc = "segment_returned"
  /\ Len(text) = MaxSegLen
  /\ "1" \in Range(text) /\ Range(text) \cap Vowels # {} /\ Range(text) \cap Consonants # {}
  /\ \E k \in 1..Len(tokens) : Len(tokens[k]) >= 2
  /\ \E k \in 1..Len(tokens) : Len(tokens[k]) = 1

\* a token of shape CV followed by zero or more consonants
IsCVCs(t) ==
  /\ Len(t) >= 2
  /\ t[1] \in Consonants
  /\ t[2] \in Vowels
  /\ \A m \in 3..Len(t) : t[m] \in Consonants

\* C7: Segmenter token shape.  Every token _tokenize_suku_kata returns is a
\* single character or a consonant, a vowel and then consonants only; a
\* character that is neither consonant nor vowel is always a token of its own.
C7_TokenShape ==
  pc = "segment_returned" =>
    \A k \in 1..Len(tokens) :
      /\ Len(tokens[k]) = 1 \/ IsCVCs(tokens[k])
      /\ (\E m \in 1..Len(tokens[k]) : tokens[k][m] \notin Consonants \cup Vowels)
           => Len(tokens[k]) = 1

\* the positions where the two loops of the segmenter run
InSegmenterLoop == pc \in {"scan", "in_syllable"}

\* C9 (steps): an iteration of the segmenter's outer loop (from "scan" into the
\* loop body) and an iteration of its inner loop (staying "in_syllable") strictly
\* increase i, and i never exceeds len(text); an iteration of the prefix loop
\* that does not exit removes a non-empty prefix from the front of word.
C9_LoopStep ==
  /\ (pc = "scan" /\ pc' \in {"scan", "in_syllable"}) => i' > i
  /\ (pc = "in_syllable" /\ pc' = "in_syllable") => i' > i
  /\ InSegmenterLoop => i' <= Len(text)
  /\ (pc = "prefix_loop" /\ pc' = "prefix_loop") =>
       \E p \in Range(BuildPrefixLibrary) :
         /\ p # <<>>
         /\ word = p \o word'
         /\ prefixes_found' = Append(prefixes_found, p)

\* C9: Termination.  Every loop step makes the progress of C9_LoopStep, the
\* shipped prefix list holds no empty string, the number of detected prefixes
\* never exceeds the length of the word, and both the segmenter's scan and the
\* prefix loop reach their end.
C9_Termination ==
  /\ [][C9_LoopStep]_vars
  /\ [](\A k \in 1..Len(BuildPrefixLibrary) : BuildPrefixLibrary[k] # <<>>)
  /\ [](Len(prefixes_found) <= Len(original_word))
  /\ [](pc = "scan" => <>(pc = "segment_returned"))
  /\ [](pc = "prefix_loop" => <>(pc = "prefix_returned"))

\* the prefix loop has ended after detecting two prefixes, and the scan of a
\* text of full length has ended after inner-loop iterations
C9_Witness ==
  \/ pc = "prefix_returned" /\ Len(prefixes_found) = MaxChain
  \/ /\ pc = "segment_returned"
     /\ Len(text) = MaxSegLen
     /\ \E k \in 1..Len(tokens) : Len(tokens[k]) >= 3

\* the set of shipped prefixes
PrefixSet == Range(BuildPrefixLibrary)

\* p is the longest member of the prefix set that is a literal prefix of w
IsLongestPrefixOf(p, w) ==
  /\ p \in PrefixSet
  /\ StartsWith(w, p)
  /\ \A q \in PrefixSet : StartsWith(w, q) => Len(q) <= Len(p)

\* w with the first n entries of found removed from its front
Remainder(w, found, n) ==
  Slice(w, Len(Flatten(SubSeq(found, 1, n))), Len(w))

\* C8: Prefix Stripper longest-match chain.  When _split_prefixes_contextual
\* returns, its tokens are the markers "[PREFIX=p_j]" of p_1..p_k in detection
\* order followed by the unmodified word, each p_j is the longest shipped prefix
\* at the front of the word with p_1..p_(j-1) removed, and no shipped prefix is
\* at the front of the remainder after p_k; tokenize("memperbaiki") is the
\* markers of "mem" and "per" followed by the syllables of "memperbaiki".
C8_LongestMatchChain ==
  /\ pc = "prefix_returned" =>
       /\ Len(tokens) = Len(prefixes_found) + 1
       /\ tokens[Len(tokens)] = original_word
       /\ \A j \in 1..Len(prefixes_found) :
            /\ tokens[j] = <<"[", "P", "R", "E", "F", "I", "X", "=">>
                             \o prefixes_found[j] \o <<"]">>
            /\ IsLongestPrefixOf(prefixes_found[j],
                                 Remainder(original_word, prefixes_found, j - 1))
       /\ \A q \in PrefixSet :
            ~StartsWith(Remainder(original_word, prefixes_found, Len(prefixes_found)), q)
  /\ (pc = "tokenized" /\ text = Memperbaiki) =>
       tokens = << <<"[", "P", "R", "E", "F", "I", "X", "=", "m", "e", "m", "]">>,
                   <<"[", "P", "R", "E", "F", "I", "X", "=", "p", "e", "r", "]">>,
                   <<"m", "e", "m">>, <<"p", "e", "r">>, <<"b", "a">>, <<"i">>,
                   <<"k", "i">> >>

\* the stripper has returned for "memperbaiki" with its two prefixes detected
C8_Witness ==
  /\ pc = "prefix_returned"
  /\ original_word = Memperbaiki
  /\ prefixes_found = << <<"m", "e", "m">>, <<"p", "e", "r">> >>

\* the list with every entry after its first occurrence removed
Dedup(list) ==
  LET firsts == SelectSeq([k \in 1..Len(list) |-> k],
                          LAMBDA k : \A j \in 1..(k - 1) : list[j] # list[k])
  IN  [n \in 1..Len(firsts) |-> list[firsts[n]]]

\* the list in the opposite enumeration order
Reversed(list) == [k \in 1..Len(list) |-> list[Len(list) + 1 - k]]

\* line 91 for a tokenizer holding the shipped list without its duplicates
SortedDeduped == SortedByLenDesc(Dedup(BuildPrefixLibrary))

\* line 91 for a tokenizer holding the shipped list enumerated backwards, which
\* swaps the relative order of every two entries
SortedReversed == SortedByLenDesc(Reversed(BuildPrefixLibrary))

\* line 91 for the deduplicated list enumerated backwards
SortedDedupedReversed == SortedByLenDesc(Reversed(Dedup(BuildPrefixLibrary)))

\* C10: Duplicate prefix entries are harmless.  What _split_prefixes_contextual
\* returns with the shipped list equals what it returns with the list without
\* duplicates, and with the list (with or without duplicates) enumerated in the
\* opposite order; two shipped prefixes of equal length at the front of the
\* same string are the same string.
C10_DuplicatesHarmless ==
  /\ pc = "prefix_returned" =>
       /\ tokens = SplitPrefixesWith(SortedDeduped, original_word)
       /\ tokens = SplitPrefixesWith(SortedReversed, original_word)
       /\ tokens = SplitPrefixesWith(SortedDedupedReversed, original_word)
  /\ pc = "prefix_loop" =>
       \A p, q \in PrefixSet :
         (Len(p) = Len(q) /\ StartsWith(word, p) /\ StartsWith(word, q)) => p = q

\* the stripper has returned two markers, both of prefixes the shipped list
\* holds twice
C10_Witness ==
  /\ pc = "prefix_returned"
  /\ Len(prefixes_found) = 2
  /\ \A j \in 1..2 :
       Cardinality({k \in 1..Len(BuildPrefixLibrary) :
                      BuildPrefixLibrary[k] = prefixes_found[j]}) = 2

\* the last syllable the segmenter produces for a non-empty word
LastSyllable(w) == TokenizeSukuKata(w)[Len(TokenizeSukuKata(w))]

\* C2 as stated: tokenize("buatlah") emits no prefix marker, and the final
\* syllable of "buatlah", which ends in "lah", is split by the Particle Splitter
\* into [stem, "lah"] with a non-empty stem, both of which tokenize emits last.
C2_ParticleSplitApplied ==
  (pc = "tokenized" /\ text = Buatlah) =>
    /\ \A k \in 1..Len(tokens) : ~IsMarker(tokens[k])
    /\ EndsWith(LastSyllable(Buatlah), <<"l", "a", "h">>)
    /\ Len(SplitParticles(LastSyllable(Buatlah))) = 2
    /\ SplitParticles(LastSyllable(Buatlah))[1] # <<>>
    /\ SplitParticles(LastSyllable(Buatlah))[2] = <<"l", "a", "h">>
    /\ Len(tokens) >= 2
    /\ SubSeq(tokens, Len(tokens) - 1, Len(tokens)) = SplitParticles(LastSyllable(Buatlah))

\* C2 amended: tokenize("buatlah") emits no prefix marker and returns
\* ["bu", "a", "t", "lah"]; the final syllable the segmenter produces is exactly
\* "lah", and the Particle Splitter returns it whole, as the one token ["lah"].
C2_ParticleNotSplit ==
  (pc = "tokenized" /\ text = Buatlah) =>
    /\ \A k \in 1..Len(tokens) : ~IsMarker(tokens[k])
    /\ tokens = << <<"b", "u">>, <<"a">>, <<"t">>, <<"l", "a", "h">> >>
    /\ LastSyllable(Buatlah) = <<"l", "a", "h">>
    /\ SplitParticles(LastSyllable(Buatlah)) = << <<"l", "a", "h">> >>

\* tokenize("buatlah") has returned
C2_Witness == pc = "tokenized" /\ text = Buatlah /\ tokens # <<>>

\* the distinct tokens tokenize produces on the texts of the dataset
CorpusTokens ==
  UNION {Range(Tokenize(split_punctuation, dataset[k])) : k \in 1..Len(dataset)}

\* the keys of a vocabulary
Keys(v) == {v[k].key : k \in 1..Len(v)}

\* C3: Vocabulary invariant.  The vocabulary build_vocab returns holds every
\* token of the corpus as a key; with n the number of distinct tokens it has
\* n+1 entries with distinct keys and distinct ids, the tokens hold the ids
\* 0..n-1 in ascending code-point order of the token strings, and "<UNK>",
\* which is no token of the corpus, holds id n.
C3_VocabularyInvariant ==
  pc = "vocab_built" =>
    LET n == Cardinality(CorpusTokens)
    IN  /\ CorpusTokens \subseteq Keys(vocab)
        /\ Len(vocab) = n + 1
        /\ Cardinality(Keys(vocab)) = n + 1
        /\ {vocab[k].val : k \in 1..Len(vocab)} = 0..n
        /\ UNK \notin CorpusTokens
        /\ \A k \in 1..Len(vocab) : vocab[k].key = UNK <=> vocab[k].val = n
        /\ \A j, k \in 1..Len(vocab) :
             (vocab[j].key # UNK /\ vocab[k].key # UNK) =>
               (vocab[j].val < vocab[k].val <=> LexLess(vocab[j].key, vocab[k].key))

\* a vocabulary built from two different texts, one holding "<UNK>" literally
C3_Witness ==
  /\ pc = "vocab_built"
  /\ Len(dataset) = 2
  /\ dataset[1] # dataset[2]
  /\ \E k \in 1..2 : StartsWith(dataset[k], UNK)
  /\ Len(vocab) > Len(UNK)

\* C4: Encode/decode stability on known tokens.  When every token of
\* tokenize(text) is a key of the built vocabulary, decode_text of
\* encode_text(text) is those tokens, in order, joined by single spaces.
C4_RoundTripKnown ==
  (pc = "decoded" /\ Range(tokens) \subseteq Keys(vocab)) =>
    /\ Len(encoded) = Len(tokens)
    /\ decoded = Join(tokens, <<" ">>)

\* a round trip of a text of several known tokens, one of them repeated and one
\* of them the last token of the vocabulary's sorted order
C4_Witness ==
  /\ pc = "decoded"
  /\ Range(tokens) \subseteq Keys(vocab)
  /\ Len(tokens) >= 3
  /\ Cardinality(Range(tokens)) < Len(tokens)
  /\ UnkId(vocab) - 1 \in Range(encoded)

\* what decode_text must render for an id: the token holding it, "<UNK>" for
\* the id of "<UNK>" and for an id the vocabulary never assigned
Rendered(id, v) ==
  IF \E k \in 1..Len(v) : v[k].val = id /\ v[k].key # UNK
  THEN (CHOOSE e \in Range(v) : e.val = id /\ e.key # UNK).key
  ELSE UNK

\* C5: Unknowns never fail.  encode_text raises no error, maps each token of
\* the text that is a key of the vocabulary to its id and every other token to
\* n, the id of "<UNK>"; decode_text renders each id as Rendered does, which is
\* "<UNK>" for n, for a negative id and for an id above n, and joins the
\* results with single spaces.
C5_UnknownsNeverFail ==
  /\ pc # "KeyError"
  /\ pc \in {"encoded", "decoded"} =>
       /\ Len(encoded) = Len(tokens)
       /\ \A k \in 1..Len(tokens) :
            IF tokens[k] \in Keys(vocab)
            THEN [key |-> tokens[k], val |-> encoded[k]] \in Range(vocab)
            ELSE encoded[k] = UnkId(vocab)
  /\ pc \in {"decoded", "ids_decoded"} =>
       /\ decoded = Join([k \in 1..Len(encoded) |-> Rendered(encoded[k], vocab)], <<" ">>)
       /\ \A k \in 1..Len(encoded) :
            (encoded[k] < 0 \/ encoded[k] >= UnkId(vocab))
              => Rendered(encoded[k], vocab) = UNK

\* a text with a known and an unknown token has been encoded and decoded
C5_Witness ==
  /\ pc = "decoded"
  /\ \E k \in 1..Len(tokens) : tokens[k] \notin Keys(vocab)
  /\ \E k \in 1..Len(tokens) : tokens[k] \in Keys(vocab) /\ encoded[k] < UnkId(vocab)
  /\ Len(vocab) > 1

RECURSIVE WordsOf(_, _, _, _)
\* the words of a text, read left to right from position a with the word cur
\* in progress: a blank ends a word, and with punctuation splitting on a
\* punctuation character ends a word and is a word of its own
WordsOf(sp, t, a, cur) ==
  LET done == IF cur = <<>> THEN <<>> ELSE <<cur>>
  IN  IF a > Len(t) THEN done
      ELSE IF t[a] \in Whitespace THEN done \o WordsOf(sp, t, a + 1, <<>>)
      ELSE IF sp /\ t[a] \in Range(Punctuation)
           THEN done \o << <<t[a]>> >> \o WordsOf(sp, t, a + 1, <<>>)
      ELSE WordsOf(sp, t, a + 1, Append(cur, t[a]))

\* what one word contributes: its markers, then the tokens cut from the word
WordOutput(w) ==
  LET lw == Lower(w)
      found == PrefixesFound(SortedPrefixes, lw)
      syllables == TokenizeSukuKata(lw)
  IN  [k \in 1..Len(found) |-> PrefixMarker(found[k])]
        \o Flatten([k \in 1..Len(syllables) |-> SplitParticles(syllables[k])])

\* C6: Pipeline order preservation.  The tokens of tokenize are the outputs of
\* the words of the text, concatenated in word order with nothing dropped,
\* merged or reordered; within the output of a word every prefix marker
\* precedes every token that is no marker.
C6_OrderPreserved ==
  pc = "tokenized" =>
    LET words == WordsOf(split_punctuation, text, 1, <<>>)
    IN  /\ tokens = Flatten([k \in 1..Len(words) |-> WordOutput(words[k])])
        /\ \A k \in 1..Len(words) :
             LET out == WordTokens(words[k])
             IN  /\ out = WordOutput(words[k])
                 /\ out # <<>>
                 /\ \A a, b \in 1..Len(out) :
                      (a < b /\ IsMarker(out[b])) => IsMarker(out[a])

\* a text of several words has been tokenized, a later word with prefix markers
C6_Witness ==
  /\ pc = "tokenized"
  /\ Len(WordsOf(split_punctuation, text, 1, <<>>)) >= 2
  /\ ~IsMarker(tokens[1])
  /\ \E k \in 2..Len(tokens) : IsMarker(tokens[k])

\* a token the Particle Splitter cannot cut: a single character, or a token
\* whose only vowel is its second character
VowelOnlySecond(t) ==
  \/ Len(t) = 1
  \/ /\ Len(t) >= 2
     /\ \A k \in 1..Len(t) : (t[k] \in Vowels) <=> (k = 2)

\* a segmenter token that ends with a shipped particle is that particle, and
\* the Particle Splitter returns the token whole
SplitterKeeps(t) ==
  /\ VowelOnlySecond(t)
  /\ \A k \in 1..Len(BuildParticleLibrary) :
       EndsWith(t, BuildParticleLibrary[k]) => t = BuildParticleLibrary[k]
  /\ SplitParticles(t) = <<t>>

\* C11: inside tokenize the Particle Splitter changes nothing.  For every word
\* of a tokenized text, the tokens emitted for the word that are no markers are
\* exactly the segmenter's output on the lowercased word; every token the
\* segmenter returns, in tokenize or called directly, is a single character or
\* has its only vowel at index 1, ends with a shipped particle only when it
\* equals it, and is returned whole by the splitter.
C11_SplitterIdentity ==
  /\ pc = "tokenized" =>
       LET words == WordsOf(split_punctuation, text, 1, <<>>)
       IN  \A k \in 1..Len(words) :
             LET syllables == TokenizeSukuKata(Lower(words[k]))
             IN  /\ SelectSeq(WordTokens(words[k]), LAMBDA t : ~IsMarker(t)) = syllables
                 /\ \A j \in 1..Len(syllables) : SplitterKeeps(syllables[j])
  /\ pc = "segment_returned" =>
       \A j \in 1..Len(tokens) : SplitterKeeps(tokens[j])

\* a text has been tokenized whose tokens hold a prefix marker and a token
\* that is a shipped particle
C11_Witness ==
  /\ pc = "tokenized"
  /\ \E k \in 1..Len(tokens) : IsMarker(tokens[k])
  /\ \E k \in 1..Len(tokens) : tokens[k] \in Range(BuildParticleLibrary)

=============================================================================
